---------------------------- MODULE Spec2Model ----------------------------
(***************************************************************************)
(* Healthcare data pipeline: synth_data.gen_admissions, pipeline.transform *)
(* and pipeline.load, with the dashboard as a reader of the KPI tables.    *)
(*                                                                         *)
(* A timestamp is an integer number of ticks since the epoch, TicksPerDay  *)
(* ticks to the calendar day; NaT is the missing timestamp.  A float that  *)
(* the code computes as a quotient is kept as the exact fraction           *)
(* [num, den].  A diagnosis code is a number; the codes 1..NumDiagnoses    *)
(* are the rows of the reference table and NaN is the missing code.        *)
(***************************************************************************)
EXTENDS Integers, Sequences, FiniteSets

VARIABLES
    admissions,   \* the admissions frame handed to transform (extract's result)
    outcome,      \* transform: "none", "extracted" (not yet run), "returned", "raised"
    error,        \* the exception transform raised, "" if none
    cleaned,      \* the admissions frame transform returns
    kpi,          \* the kpi dict transform returns, NoKpi while there is none
    pc,           \* main/load position: "idle", "main", "raw", "begin", "stmt"
    ip,           \* load: index of the next statement of the KPI transaction
    committed,    \* warehouse: committed rows of each KPI table
    work,         \* warehouse: the rows as load's open transaction sees them
    raw,          \* warehouse: the admissions table (to_sql replace)
    prev,         \* history: committed, as it was when the current load began
    touched,      \* history: tables whose DELETE the current load has executed
    load_outcome, \* the last load: "none", "running", "returned", "raised"
    runs,         \* number of pipeline runs started
    gen           \* gen_admissions: its arguments, position and rows

transformVars == <<admissions, outcome, error, cleaned, kpi>>
loadVars == <<pc, ip, committed, work, raw, prev, touched, load_outcome, runs>>
vars == <<admissions, outcome, error, cleaned, kpi, pc, ip, committed, work,
          raw, prev, touched, load_outcome, runs, gen>>

-----------------------------------------------------------------------------
(* Bounds of the model *)

TicksPerDay == 2
NumPatients == 2
MaxRows == 3
MaxDxRows == 11
MaxLoadRows == 2
MaxRuns == 2
MaxAdm == 2
MaxSpanDays == 1
MaxGamma == 2

(* Program constants *)

NaT == -1
NaN == 0
ReadmitWindowDays == 30
TopN == 10
NumDiagnoses == 8

-----------------------------------------------------------------------------
(* Timestamps *)

At(day, tick) == day * TicksPerDay + tick
LastTick == TicksPerDay - 1

\* Timestamp.date() / Series.dt.date: the calendar day of a timestamp
Date(t) == t \div TicksPerDay

Midnight(t) == t = At(Date(t), 0)

\* Timedelta.days / Series.dt.days: whole days of an elapsed time, floored
\* (a negative elapsed time of less than a day has days = -1)
TimedeltaDays(td) == td \div TicksPerDay

-----------------------------------------------------------------------------
(* Helpers on sequences *)

RECURSIVE SeqSum(_)
SeqSum(s) == IF s = <<>> THEN 0 ELSE s[1] + SeqSum(Tail(s))

Front(s) == SubSeq(s, 1, Len(s) - 1)

SetMax(S) == CHOOSE x \in S : \A y \in S : y <= x
SetMin(S) == CHOOSE x \in S : \A y \in S : x <= y

-----------------------------------------------------------------------------
(* transform: cleaning *)

\* admissions.dropna(subset=["admit_time", "discharge_time"])
DropNa(adm) ==
    SelectSeq(adm, LAMBDA r : r.admit_time # NaT /\ r.discharge_time # NaT)

\* admissions[admissions["discharge_time"] >= admissions["admit_time"]]
DropReversed(adm) ==
    SelectSeq(adm, LAMBDA r : r.discharge_time >= r.admit_time)

Clean(adm) == DropReversed(DropNa(adm))

\* Series.max() / Series.min() of a timestamp column: NaT on an empty column
ColMax(adm, col) ==
    IF adm = <<>> THEN NaT ELSE SetMax({adm[i][col] : i \in 1..Len(adm)})
ColMin(adm, col) ==
    IF adm = <<>> THEN NaT ELSE SetMin({adm[i][col] : i \in 1..Len(adm)})

\* Timestamp.date() of a column extreme: NaT.date() is NaT
DateOrNaT(t) == IF t = NaT THEN NaT ELSE Date(t)

-----------------------------------------------------------------------------
(* transform: average length of stay *)

LosDaysByCalendar(r) == Date(r.discharge_time) - Date(r.admit_time)

\* (discharge_time - admit_time).dt.days of one row
LosDays(r) == TimedeltaDays(r.discharge_time - r.admit_time)

\* float(los_days.mean()) if len(los_days) else 0.0
AvgLos(adm) ==
    IF Len(adm) > 0
    THEN [num |-> SeqSum([i \in 1..Len(adm) |-> LosDays(adm[i])]), den |-> Len(adm)]
    ELSE [num |-> 0, den |-> 1]

-----------------------------------------------------------------------------
(* transform: 30-day readmission rate *)

KeyLE(a, b) ==
    \/ a.patient_id < b.patient_id
    \/ a.patient_id = b.patient_id /\ a.admit_time <= b.admit_time

RECURSIVE InsertSorted(_, _)
InsertSorted(s, r) ==
    IF s = <<>> THEN <<r>>
    ELSE IF KeyLE(s[Len(s)], r) THEN Append(s, r)
    ELSE Append(InsertSorted(Front(s), r), s[Len(s)])

\* admissions.sort_values(["patient_id", "admit_time"]): rows with equal keys
\* keep the order they had in the input
RECURSIVE SortValues(_)
SortValues(adm) ==
    IF adm = <<>> THEN <<>>
    ELSE InsertSorted(SortValues(Front(adm)), adm[Len(adm)])

\* groupby("patient_id")["admit_time"].shift(-1) at row i of the sorted frame
NextAdmit(sorted, i) ==
    IF i < Len(sorted) /\ sorted[i + 1].patient_id = sorted[i].patient_id
    THEN sorted[i + 1].admit_time
    ELSE NaT

BetweenExclusive(diff) == 0 < diff /\ diff < ReadmitWindowDays

\* diff_days.between(0, 30, inclusive="both")
Between(diff) == 0 <= diff /\ diff <= ReadmitWindowDays

\* is_readmit_30d at row i: NaN (no next admission) is not between
IsReadmit30d(sorted, i) ==
    /\ NextAdmit(sorted, i) # NaT
    /\ Between(TimedeltaDays(NextAdmit(sorted, i) - sorted[i].discharge_time))

Denom(adm) ==
    LET sorted == SortValues(adm)
    IN  Cardinality({i \in 1..Len(sorted) : NextAdmit(sorted, i) # NaT})

Numer(adm) ==
    LET sorted == SortValues(adm)
    IN  Cardinality({i \in 1..Len(sorted) : IsReadmit30d(sorted, i)})

\* float(numer) / float(denom) if denom > 0 else 0.0
ReadmitRate(adm) ==
    IF Denom(adm) > 0
    THEN [num |-> Numer(adm), den |-> Denom(adm)]
    ELSE [num |-> 0, den |-> 1]


-----------------------------------------------------------------------------
(* transform: admissions by primary diagnosis *)

Min(a, b) == IF a <= b THEN a ELSE b

RECURSIVE AscSeq(_)
AscSeq(S) ==
    IF S = {} THEN <<>>
    ELSE LET m == SetMin(S) IN <<m>> \o AscSeq(S \ {m})

\* groupby("primary_diagnosis").size().reset_index(name="admissions_count"):
\* one row per code present, in ascending code order; groupby leaves out the
\* rows whose key is missing
GroupSize(adm) ==
    LET codes == AscSeq({adm[i].primary_diagnosis : i \in 1..Len(adm)} \ {NaN})
    IN  [k \in 1..Len(codes) |->
            [primary_diagnosis |-> codes[k],
             admissions_count |->
                Cardinality({i \in 1..Len(adm) : adm[i].primary_diagnosis = codes[k]})]]

RECURSIVE InsertByCountDesc(_, _)
InsertByCountDesc(s, r) ==
    IF s = <<>> THEN <<r>>
    ELSE IF s[Len(s)].admissions_count >= r.admissions_count THEN Append(s, r)
    ELSE Append(InsertByCountDesc(Front(s), r), s[Len(s)])

\* by_dx.sort_values("admissions_count", ascending=False); the order among
\* equal counts is the sort's own, taken here as the order of the input
RECURSIVE SortByCountDesc(_)
SortByCountDesc(s) ==
    IF s = <<>> THEN <<>>
    ELSE InsertByCountDesc(SortByCountDesc(Front(s)), s[Len(s)])

\* .head(10)
Head10(s) == SubSeq(s, 1, Min(TopN, Len(s)))

\* DIAGNOSES / gen_diagnoses(): the codes of the reference table
DIAGNOSES == 1..NumDiagnoses

MergeInner(by_dx, diagnoses) ==
    LET kept == SelectSeq(by_dx, LAMBDA r : r.primary_diagnosis \in diagnoses)
    IN  [k \in 1..Len(kept) |->
            [primary_diagnosis |-> kept[k].primary_diagnosis,
             admissions_count |-> kept[k].admissions_count,
             diagnosis_desc |-> "desc"]]

\* by_dx.merge(diagnoses, left_on="primary_diagnosis",
\*             right_on="diagnosis_code", how="left")
MergeLeft(by_dx, diagnoses) ==
    [k \in 1..Len(by_dx) |->
        [primary_diagnosis |-> by_dx[k].primary_diagnosis,
         admissions_count |-> by_dx[k].admissions_count,
         diagnosis_desc |->
            IF by_dx[k].primary_diagnosis \in diagnoses THEN "desc" ELSE "NaN"]]

ByDx(adm) == MergeLeft(Head10(SortByCountDesc(GroupSize(adm))), DIAGNOSES)

-----------------------------------------------------------------------------
(* transform: daily census *)

DateRangeAcceptsNaT(start, end) == FALSE

\* pd.date_range(start, end, freq="D") raises ValueError when a bound is NaT
DateRangeRaises(start, end) == start = NaT \/ end = NaT

\* pd.date_range(start, end, freq="D"): every day from start to end inclusive
DateRange(start, end) ==
    IF DateRangeRaises(start, end) \/ end < start THEN <<>>
    ELSE [k \in 1..(end - start + 1) |-> start + k - 1]

InHouseOpenEnd(adm, d) ==
    Cardinality({i \in 1..Len(adm) :
        Date(adm[i].admit_time) <= d /\ Date(adm[i].discharge_time) > d})

\* ((admit_time.dt.date <= d) & (discharge_time.dt.date >= d)).sum()
InHouse(adm, d) ==
    Cardinality({i \in 1..Len(adm) :
        Date(adm[i].admit_time) <= d /\ Date(adm[i].discharge_time) >= d})

Census(adm) ==
    LET all_days == DateRange(DateOrNaT(ColMin(adm, "admit_time")),
                              DateOrNaT(ColMax(adm, "discharge_time")))
    IN  [k \in 1..Len(all_days) |->
            [census_date |-> all_days[k],
             inpatient_count |-> InHouse(adm, all_days[k])]]

-----------------------------------------------------------------------------
(* transform *)

NoKpi == [none |-> TRUE]

Transform ==
    /\ pc = "main"
    /\ outcome = "extracted"
    /\ LET adm == Clean(admissions)
       IN  IF DateRangeRaises(DateOrNaT(ColMin(adm, "admit_time")),
                              DateOrNaT(ColMax(adm, "discharge_time")))
           THEN /\ outcome' = "raised"
                /\ error' = "ValueError"
                /\ UNCHANGED <<cleaned, kpi>>
           ELSE /\ outcome' = "returned"
                /\ cleaned' = adm
                /\ kpi' = [as_of_date |-> DateOrNaT(ColMax(adm, "discharge_time")),
                           avg_los |-> AvgLos(adm),
                           readmit_rate |-> ReadmitRate(adm),
                           by_dx |-> ByDx(adm),
                           census |-> Census(adm)]
                /\ UNCHANGED error
    /\ UNCHANGED <<admissions, gen>>
    /\ UNCHANGED loadVars

-----------------------------------------------------------------------------
(* load: the KPI transaction *)

Tables == {"kpi_readmission_30d", "kpi_avg_los", "kpi_admissions_by_dx",
           "kpi_daily_census"}

EmptyTables == [t \in Tables |-> <<>>]

Delete(t) == <<[op |-> "DELETE", table |-> t]>>
Insert(t, row) == [op |-> "INSERT", table |-> t, row |-> row]

\* The statements load executes inside "with engine.begin() as conn", in order
Statements(k) ==
    Delete("kpi_readmission_30d")
    \o <<Insert("kpi_readmission_30d",
                [as_of_date |-> k.as_of_date, readmission_rate |-> k.readmit_rate])>>
    \o Delete("kpi_avg_los")
    \o <<Insert("kpi_avg_los",
                [as_of_date |-> k.as_of_date, avg_los_days |-> k.avg_los])>>
    \o Delete("kpi_admissions_by_dx")
    \o [i \in 1..Len(k.by_dx) |->
            Insert("kpi_admissions_by_dx",
                   [as_of_date |-> k.as_of_date,
                    diagnosis_code |-> k.by_dx[i].primary_diagnosis,
                    admissions_count |-> k.by_dx[i].admissions_count])]
    \o Delete("kpi_daily_census")
    \o [i \in 1..Len(k.census) |->
            Insert("kpi_daily_census",
                   [census_date |-> k.census[i].census_date,
                    inpatient_count |-> k.census[i].inpatient_count])]

ExecuteWithoutDelete(db, st) ==
    IF st.op = "DELETE" THEN db
    ELSE [db EXCEPT ![st.table] = Append(@, st.row)]

\* conn.execute(text(...)) on the tables as the transaction sees them
Execute(db, st) ==
    IF st.op = "DELETE" THEN [db EXCEPT ![st.table] = <<>>]
    ELSE [db EXCEPT ![st.table] = Append(@, st.row)]

VisibleAutocommit(c, w) == w

\* engine.begin(): what the other connections see while the transaction is
\* open is the committed rows c, not the transaction's rows w
Visible(c, w) == c

RollbackKeepsWork(c, w) == w

\* engine.begin() left by an exception: the transaction is rolled back
Rollback(c, w) == c

\* engine.begin() left normally: the transaction is committed
CommitTxn(c, w) == w

\* The dashboard's SELECT on a KPI table, on a connection of its own
ReaderQuery(t) == committed[t]

-----------------------------------------------------------------------------
(* Inputs *)

Row(p, a, d, dx) ==
    [patient_id |-> p, admit_time |-> a, discharge_time |-> d,
     primary_diagnosis |-> dx]

SeqsUpTo(S, n) == UNION {[1..k -> S] : k \in 0..n}

\* Stays around the readmission window, at midnight and at the day's last tick
TimeStays ==
    {<<At(0, 0), At(3, 0)>>,
     <<At(0, LastTick), At(3, 0)>>,
     <<At(0, 0), At(3, LastTick)>>,
     <<At(3, 0), At(3, 0)>>,
     <<At(3, 0), At(3, LastTick)>>,
     <<At(3 + ReadmitWindowDays, 0), At(6 + ReadmitWindowDays, 0)>>,
     <<At(4 + ReadmitWindowDays, 0), At(7 + ReadmitWindowDays, 0)>>}

\* Rows the cleaning drops: no admit time, no discharge time, discharge
\* before admit
BadStays ==
    {<<NaT, At(3, 0)>>,
     <<At(0, 0), NaT>>,
     <<At(3, 0), At(0, 0)>>}

\* Patient 1 has every stay, patient 2 the stays at midnight
TimeRows ==
    {Row(1, s[1], s[2], 1) : s \in TimeStays \cup BadStays}
    \cup {Row(2, s[1], s[2], 1) :
            s \in {x \in TimeStays : Midnight(x[1]) /\ Midnight(x[2])}}

TimeInputs == SeqsUpTo(TimeRows, MaxRows)

\* n rows of one patient whose diagnosis codes 1, 2, ... each fill a run of rows
DxSeq(n, B) ==
    [i \in 1..n |-> Row(1, At(0, 0), At(3, 0), 1 + Cardinality({b \in B : b <= i}))]

\* ... after no other row, a row the cleaning drops, a row without a
\* diagnosis code, or both
DxInputs ==
    LET coded == UNION {{DxSeq(n, B) : B \in SUBSET (2..n)} : n \in 1..MaxDxRows}
        dropped == Row(1, At(3, 0), At(0, 0), 1)
        uncoded == Row(1, At(0, 0), At(3, 0), NaN)
    IN  {p \o s : p \in {<<>>, <<dropped>>, <<uncoded>>, <<dropped, uncoded>>},
                  s \in coded}

LoadInputs ==
    SeqsUpTo({Row(1, At(0, 0), At(2, 0), 1),
              Row(2, At(1, 0), At(1, LastTick), 2),
              Row(1, At(1, 0), At(0, 0), 1)},
             MaxLoadRows)

-----------------------------------------------------------------------------
(* main and load *)

GenIdle ==
    [status |-> "idle", n_adm |-> 0, n_patients |-> 0, start_dt |-> 0,
     end_dt |-> 0, rows |-> <<>>]

\* main: extract() hands the frames read from the CSV files to transform
Extract ==
    /\ pc = "idle" \/ (pc = "main" /\ outcome = "raised")
    /\ runs < MaxRuns
    /\ admissions' \in LoadInputs
    /\ outcome' = "extracted"
    /\ error' = ""
    /\ cleaned' = <<>>
    /\ kpi' = NoKpi
    /\ pc' = "main"
    /\ runs' = runs + 1
    /\ load_outcome' = "none"
    /\ UNCHANGED <<ip, committed, work, raw, prev, touched, gen>>

\* load: run_sql_file("etl/schema.sql") ensures the tables exist
LoadSchema ==
    /\ pc = "main"
    /\ outcome = "returned"
    /\ pc' = "raw"
    /\ load_outcome' = "running"
    /\ prev' = committed
    /\ touched' = {}
    /\ UNCHANGED <<ip, committed, work, raw, runs, gen>>
    /\ UNCHANGED transformVars

\* load: admissions.to_sql("admissions", engine, if_exists="replace")
LoadRaw ==
    /\ pc = "raw"
    /\ raw' = cleaned
    /\ pc' = "begin"
    /\ UNCHANGED <<ip, committed, work, prev, touched, load_outcome, runs, gen>>
    /\ UNCHANGED transformVars

\* load: with engine.begin() as conn
BeginTxn ==
    /\ pc = "begin"
    /\ work' = committed
    /\ ip' = 1
    /\ pc' = "stmt"
    /\ UNCHANGED <<committed, raw, prev, touched, load_outcome, runs, gen>>
    /\ UNCHANGED transformVars

\* load: the next conn.execute of the transaction
ExecNext ==
    /\ pc = "stmt"
    /\ ip <= Len(Statements(kpi))
    /\ LET st == Statements(kpi)[ip]
       IN  /\ work' = Execute(work, st)
           /\ committed' = Visible(committed, work')
           /\ touched' = IF st.op = "DELETE" THEN touched \cup {st.table} ELSE touched
    /\ ip' = ip + 1
    /\ UNCHANGED <<pc, raw, prev, load_outcome, runs, gen>>
    /\ UNCHANGED transformVars

\* load: the with block ends and the transaction commits; load returns
Commit ==
    /\ pc = "stmt"
    /\ ip > Len(Statements(kpi))
    /\ committed' = CommitTxn(committed, work)
    /\ work' = committed'
    /\ pc' = "idle"
    /\ load_outcome' = "returned"
    /\ UNCHANGED <<ip, raw, prev, touched, runs, gen>>
    /\ UNCHANGED transformVars

\* load: a statement of load raises; an open transaction is rolled back and
\* the exception leaves load and main
Fail ==
    /\ pc \in {"raw", "begin", "stmt"}
    /\ committed' = IF pc = "stmt" THEN Rollback(committed, work) ELSE committed
    /\ work' = committed'
    /\ pc' = "idle"
    /\ load_outcome' = "raised"
    /\ UNCHANGED <<ip, raw, prev, touched, runs, gen>>
    /\ UNCHANGED transformVars

-----------------------------------------------------------------------------
(* gen_admissions *)

Max(a, b) == IF a >= b THEN a ELSE b

\* day_span = (end_dt - start_dt).days
DaySpan(g) == TimedeltaDays(g.end_dt - g.start_dt)

\* random.randint(0, day_span): both ends included
AdmitOffsets(g) == 0..DaySpan(g)

LosAtLeastZero(x) == x

\* los_days = max(1, int(np.random.gamma(...))), x the integer part of the draw
LosOf(x) == Max(1, x)

\* one pass of the for loop: a row is appended
GenRow ==
    /\ gen.status = "running"
    /\ Len(gen.rows) < gen.n_adm
    /\ DaySpan(gen) >= 0
    /\ \E pid \in 1..gen.n_patients, k \in AdmitOffsets(gen), x \in 0..MaxGamma :
          LET admit_day == gen.start_dt + k * TicksPerDay
              discharge_day == admit_day + LosOf(x) * TicksPerDay
          IN  gen' = [gen EXCEPT !.rows =
                        Append(@, [admission_id |-> Len(gen.rows) + 1,
                                   patient_id |-> pid,
                                   admit_time |-> admit_day,
                                   discharge_time |-> discharge_day])]
    /\ UNCHANGED transformVars
    /\ UNCHANGED loadVars

\* random.randint(0, day_span) raises ValueError on an empty range
GenRaise ==
    /\ gen.status = "running"
    /\ Len(gen.rows) < gen.n_adm
    /\ DaySpan(gen) < 0
    /\ gen' = [gen EXCEPT !.status = "raised"]
    /\ UNCHANGED transformVars
    /\ UNCHANGED loadVars

\* return pd.DataFrame(rows)
GenReturn ==
    /\ gen.status = "running"
    /\ Len(gen.rows) = gen.n_adm
    /\ gen' = [gen EXCEPT !.status = "returned"]
    /\ UNCHANGED transformVars
    /\ UNCHANGED loadVars

-----------------------------------------------------------------------------
(* Specifications *)

LoadIdle ==
    /\ ip = 1
    /\ committed = EmptyTables
    /\ work = EmptyTables
    /\ raw = <<>>
    /\ prev = EmptyTables
    /\ touched = {}
    /\ load_outcome = "none"

\* transform applied to an admissions frame
Init ==
    /\ admissions \in TimeInputs \cup DxInputs
    /\ outcome = "extracted"
    /\ error = ""
    /\ cleaned = <<>>
    /\ kpi = NoKpi
    /\ pc = "main"
    /\ runs = 1
    /\ LoadIdle
    /\ gen = GenIdle

Next == Transform

Spec == Init /\ [][Next]_vars

\* the pipeline, run again and again on one warehouse
InitLoad ==
    /\ admissions = <<>>
    /\ outcome = "none"
    /\ error = ""
    /\ cleaned = <<>>
    /\ kpi = NoKpi
    /\ pc = "idle"
    /\ runs = 0
    /\ LoadIdle
    /\ gen = GenIdle

NextLoad ==
    \/ Extract
    \/ Transform
    \/ LoadSchema
    \/ LoadRaw
    \/ BeginTxn
    \/ ExecNext
    \/ Commit
    \/ Fail

SpecLoad == InitLoad /\ [][NextLoad]_vars

\* gen_admissions called with its arguments
InitGen ==
    /\ admissions = <<>>
    /\ outcome = "none"
    /\ error = ""
    /\ cleaned = <<>>
    /\ kpi = NoKpi
    /\ pc = "idle"
    /\ runs = 0
    /\ LoadIdle
    /\ gen \in {[status |-> "running", n_adm |-> n, n_patients |-> NumPatients,
                 start_dt |-> s, end_dt |-> e, rows |-> <<>>] :
                    n \in 0..MaxAdm,
                    s \in {At(0, 0), At(0, LastTick)},
                    e \in {At(d, t) : d \in 0..MaxSpanDays, t \in {0, LastTick}}}

NextGen ==
    \/ GenRow
    \/ GenRaise
    \/ GenReturn

SpecGen == InitGen /\ [][NextGen]_vars

-----------------------------------------------------------------------------
(* Properties of transform, stated on the input frame *)

Valid(r) ==
    /\ r.admit_time # NaT
    /\ r.discharge_time # NaT
    /\ r.discharge_time >= r.admit_time

\* the rows of the input that are cleaned admissions
ValidIdx == {i \in 1..Len(admissions) : Valid(admissions[i])}

AllMidnight ==
    \A i \in ValidIdx : /\ Midnight(admissions[i].admit_time)
                        /\ Midnight(admissions[i].discharge_time)

\* i comes before j in admit-time order, rows of equal admit time in input order
Before(i, j) ==
    \/ admissions[i].admit_time < admissions[j].admit_time
    \/ admissions[i].admit_time = admissions[j].admit_time /\ i < j

Later(i) ==
    {j \in ValidIdx : /\ admissions[j].patient_id = admissions[i].patient_id
                      /\ Before(i, j)}

HasNext == {i \in ValidIdx : Later(i) # {}}

NextOf(i) == CHOOSE j \in Later(i) : \A k \in Later(i) : k = j \/ Before(j, k)

CalendarGap(i) ==
    Date(admissions[NextOf(i)].admit_time) - Date(admissions[i].discharge_time)

ElapsedGap(i) ==
    (admissions[NextOf(i)].admit_time - admissions[i].discharge_time) \div TicksPerDay

InWindow(gap) == 0 <= gap /\ gap <= 30

\* the rate when Gap(i) is the gap of admission i to its next admission
RateOf(Gap(_)) ==
    LET has_next == HasNext
    IN  IF has_next # {}
        THEN [num |-> Cardinality({i \in has_next : InWindow(Gap(i))}),
              den |-> Cardinality(has_next)]
        ELSE [num |-> 0, den |-> 1]

\* C1 as stated: an admission with a next admission of the same patient is
\* counted in the numerator iff the calendar date of the next admit minus the
\* calendar date of its discharge is between 0 and 30 days.
C1_CalendarGapDecides ==
    outcome = "returned" =>
        kpi.readmit_rate = RateOf(CalendarGap)

\* C1 as amended: an admission with a next admission of the same patient is
\* counted in the numerator iff the time from its discharge to the next admit,
\* floored to whole days, is between 0 and 30; when every timestamp is at
\* midnight this is the difference of the calendar dates.
C1_ElapsedGapDecides ==
    outcome = "returned" =>
        /\ kpi.readmit_rate = RateOf(ElapsedGap)
        /\ AllMidnight => kpi.readmit_rate = RateOf(CalendarGap)

\* a discharge late in the day and a next admit 31 calendar days on, at
\* midnight: less than 31 days elapsed, and the admission is counted
C1_Witness ==
    /\ outcome = "returned"
    /\ Cardinality(ValidIdx) = 2
    /\ \E i \in HasNext : CalendarGap(i) = 31 /\ ElapsedGap(i) = 30
    /\ kpi.readmit_rate = [num |-> 1, den |-> 1]

DateLo == SetMin({Date(admissions[i].admit_time) : i \in ValidIdx})
DateHi == SetMax({Date(admissions[i].discharge_time) : i \in ValidIdx})

InHouseOn(d) ==
    {i \in ValidIdx : /\ Date(admissions[i].admit_time) <= d
                      /\ d <= Date(admissions[i].discharge_time)}

\* C2: the census has one row for each calendar day from the earliest admit
\* date to the latest discharge date, whose count is the number of cleaned
\* admissions with admit date <= day <= discharge date; an admission spanning
\* k+1 calendar days adds k+1 to the sum of the counts.
C2_CensusCountsEveryDay ==
    outcome = "returned" =>
      LET lo == DateLo
          hi == DateHi
      IN
        /\ Len(kpi.census) = hi - lo + 1
        /\ \A k \in 1..Len(kpi.census) :
              /\ kpi.census[k].census_date = lo + k - 1
              /\ kpi.census[k].inpatient_count = Cardinality(InHouseOn(lo + k - 1))
        /\ SeqSum([k \in 1..Len(kpi.census) |-> kpi.census[k].inpatient_count]) =
             SeqSum([i \in 1..Len(admissions) |->
                        IF i \in ValidIdx
                        THEN Date(admissions[i].discharge_time)
                               - Date(admissions[i].admit_time) + 1
                        ELSE 0])

C2_Witness ==
    /\ outcome = "returned"
    /\ Len(kpi.census) > 30
    /\ \E k \in 1..Len(kpi.census) : kpi.census[k].inpatient_count >= 2
    /\ \E k \in 1..Len(kpi.census) : kpi.census[k].inpatient_count = 0
    /\ ~AllMidnight

\* the cleaned admissions that have a diagnosis code, and their codes
DxCoded == {i \in ValidIdx : admissions[i].primary_diagnosis # NaN}
DxCodes == {admissions[i].primary_diagnosis : i \in DxCoded}
DxSize(c) == Cardinality({i \in DxCoded : admissions[i].primary_diagnosis = c})
DxKept == {kpi.by_dx[k].primary_diagnosis : k \in 1..Len(kpi.by_dx)}
DxTotal == SeqSum([k \in 1..Len(kpi.by_dx) |-> kpi.by_dx[k].admissions_count])

ElapsedLos(i) ==
    (admissions[i].discharge_time - admissions[i].admit_time) \div TicksPerDay

CalendarLos(i) ==
    Date(admissions[i].discharge_time) - Date(admissions[i].admit_time)

\* C5 as stated: avg_los times the number of cleaned admissions is the sum of
\* (discharge calendar date - admit calendar date).
C5_AvgOfCalendarDays ==
    outcome = "returned" =>
        kpi.avg_los.num * Cardinality(ValidIdx) =
            kpi.avg_los.den * SeqSum([i \in 1..Len(admissions) |->
                                        IF i \in ValidIdx THEN CalendarLos(i) ELSE 0])

\* C5 as amended: avg_los times the number of cleaned admissions is the sum of
\* the stays' elapsed times (discharge - admit) floored to whole days; it is
\* exactly 3.0 when every stay lasts at least 3 and less than 4 days.
C5_AvgOfElapsedDays ==
    outcome = "returned" =>
        /\ kpi.avg_los.den > 0
        /\ kpi.avg_los.num * Cardinality(ValidIdx) =
             kpi.avg_los.den * SeqSum([i \in 1..Len(admissions) |->
                                         IF i \in ValidIdx THEN ElapsedLos(i) ELSE 0])
        /\ (\A i \in ValidIdx : ElapsedLos(i) = 3) =>
             kpi.avg_los.num = 3 * kpi.avg_los.den

C5_Witness ==
    /\ outcome = "returned"
    /\ Cardinality(ValidIdx) = 3
    /\ \A i \in ValidIdx : ElapsedLos(i) = 3
    /\ ~AllMidnight
    /\ kpi.avg_los.num = 3 * kpi.avg_los.den

Swap(s, i, j) ==
    [k \in 1..Len(s) |-> IF k = i THEN s[j] ELSE IF k = j THEN s[i] ELSE s[k]]

\* C10: the readmission rate transform returns is the same for every
\* reordering of the input rows (here: for every exchange of two rows, of which
\* every reordering is composed).
C10_RateIgnoresRowOrder ==
    outcome = "returned" =>
        \A i \in 1..Len(admissions) : \A j \in (i + 1)..Len(admissions) :
            ReadmitRate(Clean(Swap(admissions, i, j))) = kpi.readmit_rate

-----------------------------------------------------------------------------
(* Properties of load *)

\* the rows of table t in the snapshot k
SnapshotRows(k, t) ==
    CASE t = "kpi_readmission_30d" ->
           <<[as_of_date |-> k.as_of_date, readmission_rate |-> k.readmit_rate]>>
      [] t = "kpi_avg_los" ->
           <<[as_of_date |-> k.as_of_date, avg_los_days |-> k.avg_los]>>
      [] t = "kpi_admissions_by_dx" ->
           [i \in 1..Len(k.by_dx) |->
              [as_of_date |-> k.as_of_date,
               diagnosis_code |-> k.by_dx[i].primary_diagnosis,
               admissions_count |-> k.by_dx[i].admissions_count]]
      [] t = "kpi_daily_census" ->
           [i \in 1..Len(k.census) |->
              [census_date |-> k.census[i].census_date,
               inpatient_count |-> k.census[i].inpatient_count]]

\* C6: when a load has returned, each KPI table holds exactly the rows of the
\* snapshot passed to it: one row for readmission and for average LOS, one row
\* per by_dx row and per census row, and nothing of an earlier snapshot.
C6_TablesHoldLastSnapshot ==
    load_outcome = "returned" =>
        /\ \A t \in Tables : committed[t] = SnapshotRows(kpi, t)
        /\ Len(committed["kpi_readmission_30d"]) = 1
        /\ Len(committed["kpi_avg_los"]) = 1
        /\ Len(committed["kpi_admissions_by_dx"]) = Len(kpi.by_dx)
        /\ Len(committed["kpi_daily_census"]) = Len(kpi.census)

\* a second load has replaced a snapshot with more by_dx and census rows
C6_Witness ==
    /\ load_outcome = "returned"
    /\ runs = 2
    /\ Len(prev["kpi_daily_census"]) > Len(committed["kpi_daily_census"])
    /\ Len(prev["kpi_admissions_by_dx"]) > Len(committed["kpi_admissions_by_dx"])
    /\ prev["kpi_avg_los"] # committed["kpi_avg_los"]

\* C7: while load is executing, a reader's query of a KPI table returns the
\* complete previous snapshot or the complete new one.
C7_ReaderSeesWholeSnapshot ==
    load_outcome = "running" =>
        \A t \in Tables :
            ReaderQuery(t) = prev[t] \/ ReaderQuery(t) = SnapshotRows(kpi, t)

\* load has deleted the rows of a table and inserted none yet, and has
\* inserted some of the rows of another; the reader sees the previous rows
C7_Witness ==
    /\ load_outcome = "running"
    /\ pc = "stmt"
    /\ work["kpi_daily_census"] = <<>>
    /\ prev["kpi_daily_census"] # <<>>
    /\ ReaderQuery("kpi_daily_census") = prev["kpi_daily_census"]
    /\ work["kpi_avg_los"] # prev["kpi_avg_los"]

\* C8: when load has failed, the failure has reached the caller, every KPI
\* table whose DELETE was not executed holds its previous snapshot, and no
\* table is left emptied or with part of the new snapshot.
C8_FailedLoadLeavesSnapshots ==
    load_outcome = "raised" =>
        /\ pc = "idle"
        /\ \A t \in Tables \ touched : committed[t] = prev[t]
        /\ \A t \in Tables :
              /\ committed[t] = prev[t] \/ committed[t] = SnapshotRows(kpi, t)
              /\ committed[t] = <<>> => prev[t] = <<>>

\* load failed between the DELETE on the census table and its last INSERT,
\* over a previous snapshot
C8_Witness ==
    /\ load_outcome = "raised"
    /\ "kpi_daily_census" \in touched
    /\ ip <= Len(Statements(kpi))
    /\ prev["kpi_daily_census"] # <<>>
    /\ prev["kpi_daily_census"] # SnapshotRows(kpi, "kpi_daily_census")

-----------------------------------------------------------------------------
(* Properties of gen_admissions *)

WholeDays(td) == td = (td \div TicksPerDay) * TicksPerDay

\* C9 as stated: over a date range [start_dt, end_dt) that is not empty, every
\* generated row has start_dt <= admit < end_dt and a discharge a whole number
\* of days, at least 1, after the admit.
C9_AdmitInHalfOpenRange ==
    gen.start_dt < gen.end_dt =>
      \A i \in 1..Len(gen.rows) :
        /\ gen.rows[i].admit_time >= gen.start_dt
        /\ gen.rows[i].admit_time < gen.end_dt
        /\ WholeDays(gen.rows[i].discharge_time - gen.rows[i].admit_time)
        /\ gen.rows[i].discharge_time - gen.rows[i].admit_time >= TicksPerDay

\* C9 as amended: every generated row has start_dt <= admit <= end_dt, the
\* admit a whole number of days after start_dt, and a discharge a whole number
\* of days, at least 1, after the admit.
C9_AdmitInClosedRange ==
    \A i \in 1..Len(gen.rows) :
        /\ gen.rows[i].admit_time >= gen.start_dt
        /\ gen.rows[i].admit_time <= gen.end_dt
        /\ WholeDays(gen.rows[i].admit_time - gen.start_dt)
        /\ WholeDays(gen.rows[i].discharge_time - gen.rows[i].admit_time)
        /\ gen.rows[i].discharge_time - gen.rows[i].admit_time >= TicksPerDay

\* gen_admissions has returned a row admitted at end_dt itself
C9_Witness ==
    /\ gen.status = "returned"
    /\ gen.end_dt > gen.start_dt
    /\ \E i \in 1..Len(gen.rows) : gen.rows[i].admit_time = gen.end_dt
    /\ \E i \in 1..Len(gen.rows) :
          gen.rows[i].discharge_time - gen.rows[i].admit_time > TicksPerDay

=============================================================================
